---- MODULE Spec2Model ----
\* Abalone age predictor notebook (tensorflow_abalone_age_predictor_using_layers):
\* the model function handed to the estimator, and the notebook's run of
\* upload_data, fit, deploy, predict and delete_endpoint.
EXTENDS Integers, Sequences, FiniteSets, TLC

\* ---------------------------------------------------------------- bounds
MaxRows == 3
MaxFeatures == 7
MaxBatch == 2
MaxEvals == 1

\* ------------------------------------------------------------- constants
training_steps == 100
hidden_units == 10
output_units == 1
NumAbaloneFeatures == 7

S3Locations == {"s3://sagemaker-r1-acct/data/DEMO-abalone", "s3://sagemaker-r2-acct/data/DEMO-abalone"}
EndpointNames == {"endpoint-a", "endpoint-b"}
CsvValues == {1, 2}
AgeValues == {5, 9}

TRAIN == "train"
EVAL == "eval"
PREDICT == "infer"
ModeKeys == {TRAIN, EVAL, PREDICT}

hyperparameters == [learning_rate |-> "0.001"]

\* ------------------------------------------------- graph building blocks
RECURSIVE Product(_)
Product(s) == IF s = <<>> THEN 1 ELSE Head(s) * Product(Tail(s))

\* A node of the TensorFlow graph: the op that made it, the variable the
\* code binds it to, the nodes it reads, and the shape of its value.
Node(op, name, ins, units, attr, shape) ==
  [op |-> op, name |-> name, inputs |-> ins, units |-> units, attr |-> attr, shape |-> shape]

Placeholder(name, shape) == Node("placeholder", name, <<>>, 0, "None", shape)

\* tf.layers.dense: fully connected layer, last dimension becomes `units`
dense(t, units, activation, name) ==
  Node("dense", name, <<t.name>>, units, activation,
       SubSeq(t.shape, 1, Len(t.shape) - 1) \o <<units>>)

\* variant: the output layer is returned as it is, not flattened
reshape_flat_keep(t, name) ==
  Node("reshape", name, <<t.name>>, 0, "None", t.shape)

\* tf.reshape(t, [-1]): flatten to one dimension
reshape_flat(t, name) ==
  Node("reshape", name, <<t.name>>, 0, "None", <<Product(t.shape)>>)

mean_squared_error(labels, predictions) ==
  Node("mean_squared_error", "loss", <<labels.name, predictions.name>>, 0, "None", <<>>)

root_mean_squared_error(labels, predictions) ==
  Node("root_mean_squared_error", "rmse", <<labels.name, predictions.name>>, 0, "float64", <<>>)

GradientDescentOptimizer(params) ==
  Node("GradientDescentOptimizer", "optimizer", <<>>, 0, params.learning_rate, <<>>)

\* variant: minimize is not given the global step
minimize_nostep(optimizer, loss) ==
  Node("minimize", "train_op", <<optimizer.name, loss.name>>, 0, "None", <<>>)

minimize(optimizer, loss) ==
  Node("minimize", "train_op", <<optimizer.name, loss.name>>, 0, "global_step", <<>>)

\* variant: the loss is not handed over
EstimatorSpec_noloss(mode, predictions, loss, train_op, eval_metric_ops) ==
  [mode |-> mode, predictions |-> predictions, loss |-> <<>>,
   train_op |-> train_op, eval_metric_ops |-> eval_metric_ops]

\* tf.estimator.EstimatorSpec: every field not passed is None (here <<>>)
EstimatorSpec(mode, predictions, loss, train_op, eval_metric_ops) ==
  [mode |-> mode, predictions |-> predictions, loss |-> loss,
   train_op |-> train_op, eval_metric_ops |-> eval_metric_ops]

\* variant: the TRAIN/EVAL EstimatorSpec is given the predictions dict too
model_fn_allfields(features, labels, mode, params) ==
  LET first_hidden_layer == dense(features.x, hidden_units, "relu", "first_hidden_layer")
      second_hidden_layer == dense(first_hidden_layer, hidden_units, "relu", "second_hidden_layer")
      output_layer == dense(second_hidden_layer, output_units, "None", "output_layer")
      predictions == reshape_flat(output_layer, "predictions")
      network == <<first_hidden_layer, second_hidden_layer, output_layer, predictions>>
  IN IF mode = PREDICT
     THEN [spec |-> EstimatorSpec(mode, <<[ages |-> predictions]>>, <<>>, <<>>, <<>>),
           graph |-> network]
     ELSE LET loss == mean_squared_error(labels, predictions)
              eval_metric_ops == [rmse |-> root_mean_squared_error(labels, predictions)]
              optimizer == GradientDescentOptimizer(params)
              train_op == minimize(optimizer, loss)
          IN [spec |-> EstimatorSpec(mode, <<[ages |-> predictions]>>, <<loss>>,
                                     <<train_op>>, <<eval_metric_ops>>),
              graph |-> network \o <<loss, eval_metric_ops.rmse, optimizer, train_op>>]

\* variant: the output layer is given the relu activation of the hidden layers
model_fn_reluout(features, labels, mode, params) ==
  LET first_hidden_layer == dense(features.x, hidden_units, "relu", "first_hidden_layer")
      second_hidden_layer == dense(first_hidden_layer, hidden_units, "relu", "second_hidden_layer")
      output_layer == dense(second_hidden_layer, output_units, "relu", "output_layer")
      predictions == reshape_flat(output_layer, "predictions")
      network == <<first_hidden_layer, second_hidden_layer, output_layer, predictions>>
  IN IF mode = PREDICT
     THEN [spec |-> EstimatorSpec(mode, <<[ages |-> predictions]>>, <<>>, <<>>, <<>>),
           graph |-> network]
     ELSE LET loss == mean_squared_error(labels, predictions)
              eval_metric_ops == [rmse |-> root_mean_squared_error(labels, predictions)]
              optimizer == GradientDescentOptimizer(params)
              train_op == minimize(optimizer, loss)
          IN [spec |-> EstimatorSpec(mode, <<>>, <<loss>>, <<train_op>>, <<eval_metric_ops>>),
              graph |-> network \o <<loss, eval_metric_ops.rmse, optimizer, train_op>>]

\* variant: the loss is computed before the PREDICT return
model_fn_lossfirst(features, labels, mode, params) ==
  LET first_hidden_layer == dense(features.x, hidden_units, "relu", "first_hidden_layer")
      second_hidden_layer == dense(first_hidden_layer, hidden_units, "relu", "second_hidden_layer")
      output_layer == dense(second_hidden_layer, output_units, "None", "output_layer")
      predictions == reshape_flat(output_layer, "predictions")
      loss == mean_squared_error(labels, predictions)
      network == <<first_hidden_layer, second_hidden_layer, output_layer, predictions, loss>>
  IN IF mode = PREDICT
     THEN [spec |-> EstimatorSpec(mode, <<[ages |-> predictions]>>, <<>>, <<>>, <<>>),
           graph |-> network]
     ELSE LET eval_metric_ops == [rmse |-> root_mean_squared_error(labels, predictions)]
              optimizer == GradientDescentOptimizer(params)
              train_op == minimize(optimizer, loss)
          IN [spec |-> EstimatorSpec(mode, <<>>, <<loss>>, <<train_op>>, <<eval_metric_ops>>),
              graph |-> network \o <<eval_metric_ops.rmse, optimizer, train_op>>]

\* model_fn returns the EstimatorSpec; `graph` is the list of nodes it
\* built, in the order the statements ran.
model_fn(features, labels, mode, params) ==
  LET first_hidden_layer == dense(features.x, hidden_units, "relu", "first_hidden_layer")
      second_hidden_layer == dense(first_hidden_layer, hidden_units, "relu", "second_hidden_layer")
      output_layer == dense(second_hidden_layer, output_units, "None", "output_layer")
      predictions == reshape_flat(output_layer, "predictions")
      network == <<first_hidden_layer, second_hidden_layer, output_layer, predictions>>
  IN IF mode = PREDICT
     THEN [spec |-> EstimatorSpec(mode, <<[ages |-> predictions]>>, <<>>, <<>>, <<>>),
           graph |-> network]
     ELSE LET loss == mean_squared_error(labels, predictions)
              eval_metric_ops == [rmse |-> root_mean_squared_error(labels, predictions)]
              optimizer == GradientDescentOptimizer(params)
              train_op == minimize(optimizer, loss)
          IN [spec |-> EstimatorSpec(mode, <<>>, <<loss>>, <<train_op>>, <<eval_metric_ops>>),
              graph |-> network \o <<loss, eval_metric_ops.rmse, optimizer, train_op>>]

\* Running the train op once: optimizer.minimize was given the global step,
\* so one run advances it by one.
RunTrainOp(train_op, gs) ==
  IF train_op.op = "minimize" /\ train_op.attr = "global_step" THEN gs + 1 ELSE gs

\* ------------------------------------------------------------ the notebook
VARIABLES pc, active, log, calls, failedAt, inputs, job, model_data,
          hosted, abalone_predictor, predict_target,
          prediction_set, tensor_proto, served, response

vars == <<pc, active, log, calls, failedAt, inputs, job, model_data,
          hosted, abalone_predictor, predict_target,
          prediction_set, tensor_proto, served, response>>

Ops == {"upload_data", "fit", "deploy", "predict", "delete_endpoint"}

NoJob == [phase |-> "none", phases |-> <<>>, fit_inputs |-> "None", data |-> "None",
          global_step |-> 0, train_op_runs |-> 0, evals |-> 0,
          train_spec |-> <<>>, eval_spec |-> <<>>]

Init ==
  /\ pc = "setup"
  /\ active = "none"
  /\ log = <<>>
  /\ calls = [o \in Ops |-> 0]
  /\ failedAt = "none"
  /\ inputs = "None"
  /\ job = NoJob
  /\ model_data = <<>>
  /\ hosted = {}
  /\ abalone_predictor = "None"
  /\ predict_target = "None"
  /\ prediction_set = <<>>
  /\ tensor_proto = <<>>
  /\ served = <<>>
  /\ response = <<>>

\* An external call starts: the cell is blocked until it returns or raises.
Call(op) ==
  /\ active' = op
  /\ log' = Append(log, <<op, "call">>)
  /\ calls' = [calls EXCEPT ![op] = @ + 1]

Return(op, next) ==
  /\ active' = "none"
  /\ log' = Append(log, <<op, "return">>)
  /\ pc' = next

\* An exception leaves the cell; nothing in the notebook catches it, the
\* run stops there.
Raise(op) ==
  /\ active' = "none"
  /\ log' = Append(log, <<op, "raise">>)
  /\ failedAt' = op
  /\ pc' = "aborted"

\* sagemaker_session = sagemaker.Session(); role = get_execution_role()
Setup ==
  /\ pc = "setup"
  /\ pc' = "upload"
  /\ UNCHANGED <<active, log, calls, failedAt, inputs, job, model_data, hosted,
                 abalone_predictor, predict_target, prediction_set, tensor_proto,
                 served, response>>

\* inputs = sagemaker_session.upload_data(path='data', key_prefix='data/DEMO-abalone')
UploadCall ==
  /\ pc = "upload" /\ active = "none"
  /\ Call("upload_data")
  /\ UNCHANGED <<pc, failedAt, inputs, job, model_data, hosted, abalone_predictor,
                 predict_target, prediction_set, tensor_proto, served, response>>

UploadReturn ==
  /\ pc = "upload" /\ active = "upload_data"
  /\ \E loc \in S3Locations : inputs' = loc
  /\ Return("upload_data", "fit")
  /\ UNCHANGED <<calls, failedAt, job, model_data, hosted, abalone_predictor,
                 predict_target, prediction_set, tensor_proto, served, response>>

UploadRaise ==
  /\ pc = "upload" /\ active = "upload_data"
  /\ Raise("upload_data")
  /\ UNCHANGED <<calls, inputs, job, model_data, hosted, abalone_predictor,
                 predict_target, prediction_set, tensor_proto, served, response>>

\* abalone_estimator = TensorFlow(...); abalone_estimator.fit(inputs)
FitCall ==
  /\ pc = "fit" /\ active = "none"
  /\ Call("fit")
  /\ job' = [NoJob EXCEPT !.phase = "submitted", !.fit_inputs = inputs]
  /\ UNCHANGED <<pc, failedAt, inputs, model_data, hosted, abalone_predictor,
                 predict_target, prediction_set, tensor_proto, served, response>>

EnterPhase(j, ph) == [j EXCEPT !.phase = ph, !.phases = Append(@, ph)]

\* deploy your script in a container with tensorflow installed
FitDeployScript ==
  /\ active = "fit" /\ job.phase = "submitted"
  /\ job' = EnterPhase(job, "script_deployed")
  /\ UNCHANGED <<pc, active, log, calls, failedAt, inputs, model_data, hosted,
                 abalone_predictor, predict_target, prediction_set, tensor_proto,
                 served, response>>

\* copy the data from the bucket to the container
FitCopyData ==
  /\ active = "fit" /\ job.phase = "script_deployed"
  /\ job' = [EnterPhase(job, "data_copied") EXCEPT !.data = job.fit_inputs]
  /\ UNCHANGED <<pc, active, log, calls, failedAt, inputs, model_data, hosted,
                 abalone_predictor, predict_target, prediction_set, tensor_proto,
                 served, response>>

\* instantiate the tf.estimator
FitInstantiate ==
  /\ active = "fit" /\ job.phase = "data_copied"
  /\ job' = EnterPhase(job, "instantiated")
  /\ UNCHANGED <<pc, active, log, calls, failedAt, inputs, model_data, hosted,
                 abalone_predictor, predict_target, prediction_set, tensor_proto,
                 served, response>>

TrainFeatures(batch) == [x |-> Placeholder("x", <<batch, NumAbaloneFeatures>>)]
TrainLabels(batch) == Placeholder("labels", <<batch>>)

\* train the estimator: the framework calls model_fn in TRAIN mode
FitBuildGraph ==
  /\ active = "fit" /\ job.phase = "instantiated"
  /\ \E batch \in 1..MaxBatch :
       job' = [EnterPhase(job, "training") EXCEPT
                 !.train_spec = <<model_fn(TrainFeatures(batch), TrainLabels(batch),
                                           TRAIN, hyperparameters)>>]
  /\ UNCHANGED <<pc, active, log, calls, failedAt, inputs, model_data, hosted,
                 abalone_predictor, predict_target, prediction_set, tensor_proto,
                 served, response>>

\* ... with 100 training steps: one run of train_op per step
FitTrainStep ==
  /\ active = "fit" /\ job.phase = "training"
  /\ job.global_step < training_steps
  /\ job' = [job EXCEPT
               !.global_step = RunTrainOp(job.train_spec[1].spec.train_op[1], @),
               !.train_op_runs = @ + 1]
  /\ UNCHANGED <<pc, active, log, calls, failedAt, inputs, model_data, hosted,
                 abalone_predictor, predict_target, prediction_set, tensor_proto,
                 served, response>>

\* evaluation of the training job: the framework calls model_fn in EVAL mode
FitEvaluate ==
  /\ active = "fit" /\ job.phase = "training"
  /\ job.evals < MaxEvals
  /\ \E batch \in 1..MaxBatch :
       job' = [job EXCEPT
                 !.evals = @ + 1,
                 !.eval_spec = <<model_fn(TrainFeatures(batch), TrainLabels(batch),
                                          EVAL, hyperparameters)>>]
  /\ UNCHANGED <<pc, active, log, calls, failedAt, inputs, model_data, hosted,
                 abalone_predictor, predict_target, prediction_set, tensor_proto,
                 served, response>>

\* variant: the model is saved without waiting for the last training step
FitSaveModel_early ==
  /\ active = "fit" /\ job.phase = "training"
  /\ job' = EnterPhase(job, "saved")
  /\ model_data' = <<[global_step |-> job.global_step, trained_on |-> job.data]>>
  /\ UNCHANGED <<pc, active, log, calls, failedAt, inputs, hosted,
                 abalone_predictor, predict_target, prediction_set, tensor_proto,
                 served, response>>

\* save the estimator model
FitSaveModel ==
  /\ active = "fit" /\ job.phase = "training"
  /\ job.global_step >= training_steps
  /\ job' = EnterPhase(job, "saved")
  /\ model_data' = <<[global_step |-> job.global_step, trained_on |-> job.data]>>
  /\ UNCHANGED <<pc, active, log, calls, failedAt, inputs, hosted,
                 abalone_predictor, predict_target, prediction_set, tensor_proto,
                 served, response>>

\* variant: fit hands control back without waiting for the training job
FitReturn_nowait ==
  /\ pc = "fit" /\ active = "fit"
  /\ Return("fit", "deploy")
  /\ UNCHANGED <<calls, failedAt, inputs, job, model_data, hosted, abalone_predictor,
                 predict_target, prediction_set, tensor_proto, served, response>>

FitReturn ==
  /\ pc = "fit" /\ active = "fit" /\ job.phase = "saved"
  /\ Return("fit", "deploy")
  /\ UNCHANGED <<calls, failedAt, inputs, job, model_data, hosted, abalone_predictor,
                 predict_target, prediction_set, tensor_proto, served, response>>

\* training-job failure, at any point of the job
FitRaise ==
  /\ pc = "fit" /\ active = "fit" /\ job.phase # "saved"
  /\ Raise("fit")
  /\ UNCHANGED <<calls, inputs, job, model_data, hosted, abalone_predictor,
                 predict_target, prediction_set, tensor_proto, served, response>>

\* abalone_predictor = abalone_estimator.deploy(initial_instance_count=1, ...)
DeployCall ==
  /\ pc = "deploy" /\ active = "none"
  /\ Call("deploy")
  /\ UNCHANGED <<pc, failedAt, inputs, job, model_data, hosted, abalone_predictor,
                 predict_target, prediction_set, tensor_proto, served, response>>

\* the estimator's trained model goes behind a new endpoint
DeployReturn ==
  /\ pc = "deploy" /\ active = "deploy"
  /\ \E name \in EndpointNames :
       /\ hosted' = hosted \cup {[name |-> name, model |-> model_data[1]]}
       /\ abalone_predictor' = name
  /\ Return("deploy", "request")
  /\ UNCHANGED <<calls, failedAt, inputs, job, model_data,
                 predict_target, prediction_set, tensor_proto, served, response>>

\* endpoint provisioning failure
DeployRaise ==
  /\ pc = "deploy" /\ active = "deploy"
  /\ Raise("deploy")
  /\ UNCHANGED <<calls, inputs, job, model_data, hosted, abalone_predictor,
                 predict_target, prediction_set, tensor_proto, served, response>>

\* load_csv_without_header: the rows of data/abalone_predict.csv, every row
\* with the same number of feature values
CsvFiles ==
  UNION { { [i \in 1..r |-> [j \in 1..n |-> v[i]]] : v \in [1..r -> CsvValues] } :
          r \in 0..MaxRows, n \in 1..MaxFeatures }

\* tf.make_tensor_proto(values=..., shape=..., dtype=tf.float32)
make_tensor_proto(values, shape, dtype) ==
  [values |-> values, shape |-> shape, dtype |-> dtype]

\* variant: the last row of the prediction set is taken
BuildRequest_lastrow ==
  /\ pc = "request"
  /\ \E csv \in CsvFiles :
       /\ Len(csv) > 0
       /\ prediction_set' = csv
       /\ LET data == csv[Len(csv)]
          IN tensor_proto' = <<make_tensor_proto(data, <<1, Len(data)>>, "float32")>>
  /\ pc' = "predict"
  /\ UNCHANGED <<active, log, calls, failedAt, inputs, job, model_data, hosted,
                 abalone_predictor, predict_target, served, response>>

\* data = prediction_set.data[0]
\* tensor_proto = tf.make_tensor_proto(values=np.asarray(data), shape=[1, len(data)], ...)
BuildRequest ==
  /\ pc = "request"
  /\ \E csv \in CsvFiles :
       /\ Len(csv) > 0
       /\ prediction_set' = csv
       /\ LET data == csv[1]
          IN tensor_proto' = <<make_tensor_proto(data, <<1, Len(data)>>, "float32")>>
  /\ pc' = "predict"
  /\ UNCHANGED <<active, log, calls, failedAt, inputs, job, model_data, hosted,
                 abalone_predictor, predict_target, served, response>>

\* prediction_set.data[0] on a file without rows: IndexError
BuildRequestRaise ==
  /\ pc = "request"
  /\ \E csv \in CsvFiles :
       /\ Len(csv) = 0
       /\ prediction_set' = csv
  /\ pc' = "aborted"
  /\ failedAt' = "request"
  /\ UNCHANGED <<active, log, calls, inputs, job, model_data, hosted,
                 abalone_predictor, predict_target, tensor_proto, served, response>>

\* abalone_predictor.predict(tensor_proto)
PredictCall ==
  /\ pc = "predict" /\ active = "none"
  /\ Call("predict")
  /\ predict_target' = abalone_predictor
  /\ UNCHANGED <<pc, failedAt, inputs, job, model_data, hosted, abalone_predictor,
                 prediction_set, tensor_proto, served, response>>

\* labels are empty for predict() calls
NoLabels == Placeholder("labels", <<0>>)

\* The endpoint runs the model in PREDICT mode on the request tensor and
\* answers with the predictions dict of the EstimatorSpec.
Serve(request) ==
  model_fn([x |-> Placeholder("x", request.shape)], NoLabels, PREDICT, hyperparameters)

\* the values of a predictions dict whose tensors have been evaluated
Responses(predictions) ==
  { [ages |-> v] : v \in [1..predictions.ages.shape[1] -> AgeValues] }

PredictReturn ==
  /\ pc = "predict" /\ active = "predict"
  /\ \E e \in hosted : e.name = predict_target
  /\ served' = <<Serve(tensor_proto[1])>>
  /\ \E r \in Responses(Serve(tensor_proto[1]).spec.predictions[1]) : response' = <<r>>
  /\ Return("predict", "delete")
  /\ UNCHANGED <<calls, failedAt, inputs, job, model_data, hosted, abalone_predictor,
                 predict_target, prediction_set, tensor_proto>>

\* variant: a failed predict is tried again
PredictRaise_retry ==
  /\ pc = "predict" /\ active = "predict"
  /\ active' = "none"
  /\ log' = Append(log, <<"predict", "raise">>)
  /\ UNCHANGED <<pc, calls, failedAt, inputs, job, model_data, hosted, abalone_predictor,
                 predict_target, prediction_set, tensor_proto, served, response>>

\* malformed input, or the endpoint fails
PredictRaise ==
  /\ pc = "predict" /\ active = "predict"
  /\ Raise("predict")
  /\ UNCHANGED <<calls, inputs, job, model_data, hosted, abalone_predictor,
                 predict_target, prediction_set, tensor_proto, served, response>>

\* sagemaker.Session().delete_endpoint(abalone_predictor.endpoint)
DeleteCall ==
  /\ pc = "delete" /\ active = "none"
  /\ Call("delete_endpoint")
  /\ UNCHANGED <<pc, failedAt, inputs, job, model_data, hosted, abalone_predictor,
                 predict_target, prediction_set, tensor_proto, served, response>>

DeleteReturn ==
  /\ pc = "delete" /\ active = "delete_endpoint"
  /\ hosted' = { e \in hosted : e.name # abalone_predictor }
  /\ Return("delete_endpoint", "done")
  /\ UNCHANGED <<calls, failedAt, inputs, job, model_data, abalone_predictor,
                 predict_target, prediction_set, tensor_proto, served, response>>

DeleteRaise ==
  /\ pc = "delete" /\ active = "delete_endpoint"
  /\ Raise("delete_endpoint")
  /\ UNCHANGED <<calls, inputs, job, model_data, hosted, abalone_predictor,
                 predict_target, prediction_set, tensor_proto, served, response>>

Next ==
  \/ Setup
  \/ UploadCall \/ UploadReturn \/ UploadRaise
  \/ FitCall \/ FitDeployScript \/ FitCopyData \/ FitInstantiate \/ FitBuildGraph
  \/ FitTrainStep \/ FitEvaluate \/ FitSaveModel \/ FitReturn \/ FitRaise
  \/ DeployCall \/ DeployReturn \/ DeployRaise
  \/ BuildRequest \/ BuildRequestRaise
  \/ PredictCall \/ PredictReturn \/ PredictRaise
  \/ DeleteCall \/ DeleteReturn \/ DeleteRaise

Spec == Init /\ [][Next]_vars

TypeOK ==
  /\ pc \in {"setup", "upload", "fit", "deploy", "request", "predict", "delete", "done", "aborted"}
  /\ active \in Ops \cup {"none"}
  /\ \A o \in Ops : calls[o] \in Nat

\* ---------------------------------------------------------------- helpers
IsPrefix(s, t) == Len(s) <= Len(t) /\ \A i \in 1..Len(s) : s[i] = t[i]

IsCallEvent(e) == e[2] = "call"
CallEvents == SelectSeq(log, IsCallEvent)

NotebookOrder == <<"upload_data", "fit", "deploy", "predict", "delete_endpoint">>
OrderIndex(op) == CHOOSE k \in 1..Len(NotebookOrder) : NotebookOrder[k] = op

FitPhases == <<"script_deployed", "data_copied", "instantiated", "training", "saved">>

\* every result model_fn has returned so far in this run
Returned == job.train_spec \o job.eval_spec \o served
ReturnedIn(mode) == { i \in 1..Len(Returned) : Returned[i].spec.mode = mode }

ReadsLabels(g) == \E i \in 1..Len(g) : \E k \in 1..Len(g[i].inputs) : g[i].inputs[k] = "labels"
Builds(g, op) == \E i \in 1..Len(g) : g[i].op = op
IndexOf(g, name) == CHOOSE i \in 1..Len(g) : g[i].name = name

\* ----------------------------------------------------------------- claims

\* C1: the external calls happen in the order upload_data, fit, deploy,
\* predict, one at a time: a call starts only after the previous one has
\* returned; fit receives exactly the location upload_data returned, deploy
\* hosts the model that fit saved, predict goes to the endpoint deploy returned.
C1_CallOrder ==
  /\ \A k \in 1..Len(CallEvents) : k <= 4 => CallEvents[k][1] = NotebookOrder[k]
  /\ \A i \in 1..Len(log) :
       log[i][2] = "call" =>
         /\ i > 1 => log[i-1][2] = "return"
         /\ IF i = Len(log) THEN active = log[i][1]
            ELSE log[i+1][1] = log[i][1] /\ log[i+1][2] \in {"return", "raise"}
  /\ active = "none" \/ (log # <<>> /\ log[Len(log)] = <<active, "call">>)
  /\ calls["fit"] > 0 => inputs \in S3Locations /\ job.fit_inputs = inputs
  /\ calls["deploy"] > 0 => model_data # <<>> /\ job.phase = "saved"
                              /\ model_data[1].trained_on = inputs
  /\ \A e \in hosted : e.model = model_data[1] /\ e.name = abalone_predictor
  /\ calls["predict"] > 0 => predict_target = abalone_predictor /\ predict_target \in EndpointNames

C1_Witness ==
  /\ pc = "delete" /\ active = "none" /\ response # <<>>
  /\ Len(CallEvents) = 4

\* C2: in every mode the EstimatorSpec carries the mode model_fn was called
\* with and the fields required for it: predictions in PREDICT, loss in EVAL
\* and TRAIN, train_op in TRAIN.
C2_RequiredFields ==
  /\ \A i \in 1..Len(job.train_spec) :
       LET es == job.train_spec[i].spec
       IN es.mode = TRAIN /\ es.loss # <<>> /\ es.train_op # <<>>
  /\ \A i \in 1..Len(job.eval_spec) :
       LET es == job.eval_spec[i].spec
       IN es.mode = EVAL /\ es.loss # <<>>
  /\ \A i \in 1..Len(served) :
       LET es == served[i].spec
       IN es.mode = PREDICT /\ es.predictions # <<>>

C2_Witness ==
  /\ job.train_spec # <<>> /\ job.eval_spec # <<>> /\ served # <<>>
  /\ pc = "delete"

C4_PredictResponse ==
  /\ response # <<>> =>
       LET es == served[1].spec
           req == tensor_proto[1]
       IN /\ es.mode = PREDICT
          /\ DOMAIN response[1] = {"ages"}
          /\ DOMAIN es.predictions[1] = DOMAIN response[1]
          /\ Len(es.predictions[1].ages.shape) = 1
          /\ Len(response[1].ages) = es.predictions[1].ages.shape[1]
          /\ Len(response[1].ages) = req.shape[1]
          /\ Len(response[1].ages) = 1
  /\ \A i \in 1..Len(Returned) :
       LET g == Returned[i].graph
       IN g[IndexOf(g, "predictions")].shape = <<g[1].shape[1]>>

C4_Witness ==
  /\ response # <<>> /\ log[Len(log)] = <<"predict", "return">>
  /\ Len(prediction_set) > 1

\* C5: the request holds exactly one example, the first row of the
\* prediction set, as a tensor of shape [1, n] with n the number of feature
\* values of that row (seven for the abalone data); no other row is sent.
C5_SingleExample ==
  tensor_proto # <<>> =>
    LET req == tensor_proto[1]
        n == Len(prediction_set[1])
    IN /\ req.shape = <<1, n>>
       /\ req.values = prediction_set[1]
       /\ Len(req.values) = Product(req.shape)
       /\ n = NumAbaloneFeatures => req.shape = <<1, 7>>

C5_Witness ==
  /\ tensor_proto # <<>>
  /\ Len(prediction_set) > 1
  /\ prediction_set[2] # prediction_set[1]
  /\ Len(prediction_set[1]) = NumAbaloneFeatures

\* C6: fit goes through: script deployed, data copied, estimator
\* instantiated, training, model saved, in this order; the model is saved
\* only when training has finished, training starts only after the copy.
C6_FitPhases ==
  /\ IsPrefix(job.phases, FitPhases)
  /\ job.phase \in {"training", "saved"} => job.data # "None" /\ job.data = job.fit_inputs
  /\ job.train_op_runs > 0 => job.data # "None"
  /\ job.phase = "saved" => job.global_step >= training_steps /\ model_data # <<>>
  /\ model_data # <<>> => job.phases = FitPhases

C6_Witness ==
  job.phase = "saved" /\ active = "fit"

\* C7: training ends after exactly training_steps = 100 runs of the train
\* op; every run advances the global step by one, the global step is 100
\* when the model is saved and never above 100.
C7_TrainingSteps ==
  /\ job.global_step = job.train_op_runs
  /\ job.global_step <= 100
  /\ model_data # <<>> => model_data[1].global_step = 100 /\ job.train_op_runs = 100

C7_Witness ==
  model_data # <<>> /\ job.train_op_runs = training_steps

\* C8: no retry and no recovery: every external operation is called at
\* most once, and after a failure the failed call is not repeated and no
\* later operation (delete_endpoint included) is called.
C8_NoRetry ==
  /\ \A o \in Ops : calls[o] <= 1
  /\ pc = "aborted" =>
       /\ active = "none"
       /\ failedAt \in Ops =>
            /\ calls[failedAt] = 1
            /\ log[Len(log)] = <<failedAt, "raise">>
            /\ \A o \in Ops : OrderIndex(o) > OrderIndex(failedAt) => calls[o] = 0
       /\ failedAt = "request" => calls["predict"] = 0 /\ calls["delete_endpoint"] = 0
       /\ failedAt \in {"request", "predict"} => hosted # {}

C8_Witness ==
  pc = "aborted" /\ failedAt = "predict" /\ hosted # {} /\ calls["delete_endpoint"] = 0

\* C9: in every mode the network is the same chain: dense 10 relu on
\* features["x"], dense 10 relu on it, dense 1 without activation, then
\* the flattened predictions; loss and then train_op come after them.
C9_NetworkChain ==
  \A i \in 1..Len(Returned) :
    LET g == Returned[i].graph
    IN /\ Len(g) >= 4
       /\ g[1].op = "dense" /\ g[1].inputs = <<"x">> /\ g[1].units = 10 /\ g[1].attr = "relu"
       /\ g[2].op = "dense" /\ g[2].inputs = <<g[1].name>> /\ g[2].units = 10 /\ g[2].attr = "relu"
       /\ g[3].op = "dense" /\ g[3].inputs = <<g[2].name>> /\ g[3].units = 1 /\ g[3].attr = "None"
       /\ g[4].op = "reshape" /\ g[4].inputs = <<g[3].name>> /\ Len(g[4].shape) = 1
       /\ g[4].name = "predictions"
       /\ \A k \in 5..Len(g) : g[k].op \notin {"dense", "reshape"}
       /\ Builds(g, "mean_squared_error") =>
            /\ IndexOf(g, "loss") > 4
            /\ Builds(g, "minimize")
            /\ IndexOf(g, "train_op") > IndexOf(g, "loss")
       /\ Returned[i].spec.mode # PREDICT => Builds(g, "mean_squared_error")

C9_Witness ==
  /\ ReturnedIn(TRAIN) # {} /\ ReturnedIn(EVAL) # {} /\ ReturnedIn(PREDICT) # {}
  /\ pc = "delete" /\ active = "delete_endpoint"

\* C10: in PREDICT mode model_fn returns before labels are used: no loss,
\* no rmse metric, no optimizer, no train op is built, labels are not read,
\* and the EstimatorSpec carries only mode and predictions.
C10_PredictNoLabels ==
  \A i \in 1..Len(served) :
    LET g == served[i].graph
        es == served[i].spec
    IN /\ ~ReadsLabels(g)
       /\ ~Builds(g, "mean_squared_error")
       /\ ~Builds(g, "root_mean_squared_error")
       /\ ~Builds(g, "GradientDescentOptimizer")
       /\ ~Builds(g, "minimize")
       /\ es.mode = PREDICT /\ es.predictions # <<>>
       /\ es.loss = <<>> /\ es.train_op = <<>> /\ es.eval_metric_ops = <<>>

C10_Witness ==
  /\ served # <<>> /\ response # <<>>
  /\ ReadsLabels(job.train_spec[1].graph)

====
